---------------------------- MODULE Spec2Model ----------------------------
(***************************************************************************)
(* Model of terraform-provider-mastodon: the provider root's Configure     *)
(* (internal/provider/provider.go), the post resource's lifecycle          *)
(* handlers (post_resource.go, held in account_data_source_test.go) and    *)
(* the account data source (account_data_source.go, held in part_001).     *)
(*                                                                         *)
(* Four specifications share the module:                                   *)
(*   SpecConfigure  one Configure call of the provider root, over every    *)
(*                  combination of configuration and environment values;   *)
(*   Spec           the post resource handlers run by the host framework   *)
(*                  against a remote server that also changes out-of-band. *)
(*   SpecAdapters   the provider, the Configure of both adapters, the post *)
(*                  handlers and the account data source's Read, as the    *)
(*                  host runs them one at a time;                          *)
(*   SpecConcurrent the same handlers split into entry, client call and    *)
(*                  return, run side by side for different owners.         *)
(***************************************************************************)
EXTENDS Integers, Sequences, FiniteSets, TLC

VARIABLES
    \* ---- provider root -------------------------------------------------
    config,           \* req.Config: the six provider attributes
    env,              \* the process environment (os.Getenv)
    resolved,         \* host, client_id, ... as Configure resolved them
    diags,            \* resp.Diagnostics of the Configure call
    verifyCalls,      \* GetAccountCurrentUser calls made so far
    verifyReply,      \* what the validating call answered ("none" before it)
    clientConfig,     \* the mastodon.Config the client was built from
    ResourceData,     \* resp.ResourceData
    DataSourceData,   \* resp.DataSourceData
    configureResult,  \* "pending", "returned" or "panicked"
    \* ---- post resource -------------------------------------------------
    server,           \* how the server renders a submitted status into content
    remote,           \* the server's posts: id -> unused, live or deleted post
    state,            \* the host's state store: instance -> None or Some(record)
    lastOp,           \* the step taken last: handler, input, diagnostics, calls
    origin,           \* history: how each instance's state came to be
    fresh,            \* history: instances whose post is unchanged since stored
    \* ---- adapters and the account data source ---------------------------
    adapter,          \* per adapter: the client it holds, its last Configure
    accounts,         \* the server's accounts: username -> None or Some(record)
    accountState,     \* the host's state of each declared account data source
    \* ---- handlers in flight ---------------------------------------------
    inflight,         \* the local variables of the handlers that are running
    ticket            \* history: what each running handler was asked and answered

providerVars == <<config, env, resolved, diags, verifyCalls, verifyReply,
                  clientConfig, ResourceData, DataSourceData, configureResult>>
postVars == <<server, remote, state, lastOp, origin, fresh>>
adapterVars == <<adapter, accounts, accountState>>
flightVars == <<inflight, ticket>>
vars == <<providerVars, postVars, adapterVars, flightVars>>

--------------------------------------------------------------------------
(* Provider root: MastodonProvider.Configure                               *)

Fields == {"host", "client_id", "client_secret", "email", "password", "access_token"}

\* The environment variable read for each attribute.
EnvVar(f) ==
    CASE f = "host"          -> "MASTODON_HOST"
      [] f = "client_id"     -> "MASTODON_CLIENT_ID"
      [] f = "client_secret" -> "MASTODON_CLIENT_SECRET"
      [] f = "email"         -> "MASTODON_USER_EMAIL"
      [] f = "password"      -> "MASTODON_USER_PASSWORD"
      [] f = "access_token"  -> "MASTODON_ACCESS_TOKEN"

EnvVars == {EnvVar(f) : f \in Fields}

\* A types.String of the framework: null, unknown, or a known string.
Null == [kind |-> "null", value |-> ""]
Unknown == [kind |-> "unknown", value |-> ""]
Known(s) == [kind |-> "known", value |-> s]

IsNull(v) == v.kind = "null"
IsUnknown(v) == v.kind = "unknown"
\* ValueString() is "" for a null or unknown value.
ValueString(v) == IF v.kind = "known" THEN v.value ELSE ""

\* The values a configuration attribute and an environment variable take.
ConfigValues == {Null, Unknown, Known(""), Known("cfg")}
EnvValues == {"", "env"}

\* The precedence reversed: a set environment variable wins.
ResolveEnvFirst(f) ==
    IF env[EnvVar(f)] # "" THEN env[EnvVar(f)] ELSE ValueString(config[f])

\* x := os.Getenv(...); if !data.X.IsNull() { x = data.X.ValueString() }
Resolve(f) ==
    IF ~IsNull(config[f]) THEN ValueString(config[f]) ELSE env[EnvVar(f)]

\* One diagnostic: severity, attribute path, summary, and the detail's subject.
Diag(path, summary, about) ==
    [severity |-> "error", path |-> path, summary |-> summary, about |-> about]

DiagIf(cond, d) == IF cond THEN <<d>> ELSE <<>>

HasError(ds) == \E i \in 1..Len(ds) : ds[i].severity = "error"

\* access_token == "" && (user_email == "" || user_password == "")
MissingCredentials(r) ==
    r["access_token"] = "" /\ (r["email"] = "" \/ r["password"] = "")

\* The host group without its emptiness check.
HostDiagsUnknownOnly(r) ==
    DiagIf(IsUnknown(config["host"]),
           Diag("host", "Unknown Mastodon API Host", "host"))

\* The checks that run before the client is built, one group per attribute.
HostDiags(r) ==
       DiagIf(IsUnknown(config["host"]),
              Diag("host", "Unknown Mastodon API Host", "host"))
    \o DiagIf(r["host"] = "",
              Diag("user-access-token", "Missing Mastodon Credentials", "host"))

ClientIDDiags(r) ==
       DiagIf(IsUnknown(config["client_id"]),
              Diag("client-id", "Unknown Mastodon Client ID", "client_id"))
    \o DiagIf(r["client_id"] = "",
              Diag("user-access-token", "Missing Mastodon Credentials", "client_id"))

ClientSecretDiags(r) ==
       DiagIf(IsUnknown(config["client_secret"]),
              Diag("client-secret", "Unknown Mastodon Client Secret", "client_secret"))
    \o DiagIf(r["client_secret"] = "",
              Diag("user-access-token", "Missing Mastodon Credentials", "client_secret"))

EmailDiags(r) ==
    DiagIf(IsUnknown(config["email"]),
           Diag("user-email", "Unknown Mastodon User Email", "email"))

PasswordDiags(r) ==
    DiagIf(IsUnknown(config["password"]),
           Diag("user-password", "Unknown Mastodon User Password", "password"))

AccessTokenDiags(r) ==
    DiagIf(IsUnknown(config["access_token"]),
           Diag("user-access-token", "Unknown Mastodon User Password", "access_token"))

CredentialsDiags(r) ==
    DiagIf(MissingCredentials(r),
           Diag("user-access-token", "Missing Mastodon Credentials", "credentials"))

\* A fail-fast variant: only the first problem found is reported.
FieldDiagsFailFast(r) ==
    LET all == HostDiags(r) \o ClientIDDiags(r) \o ClientSecretDiags(r)
               \o EmailDiags(r) \o PasswordDiags(r) \o AccessTokenDiags(r)
               \o CredentialsDiags(r)
    IN IF all = <<>> THEN <<>> ELSE <<Head(all)>>

\* Every check appends to the same diagnostics; none returns early.
FieldDiags(r) ==
    HostDiags(r) \o ClientIDDiags(r) \o ClientSecretDiags(r)
    \o EmailDiags(r) \o PasswordDiags(r) \o AccessTokenDiags(r)
    \o CredentialsDiags(r)

\* A client configuration that falls back to the password as the token.
BuildConfigWithPassword(r) ==
    [Server       |-> r["host"],
     ClientID     |-> r["client_id"],
     ClientSecret |-> r["client_secret"],
     AccessToken  |-> IF r["access_token"] # "" THEN r["access_token"] ELSE r["password"]]

\* var config mastodon.Config: the token is set only when it is non-empty.
BuildConfig(r) ==
    [Server       |-> r["host"],
     ClientID     |-> r["client_id"],
     ClientSecret |-> r["client_secret"],
     AccessToken  |-> IF r["access_token"] # "" THEN r["access_token"] ELSE ""]

\* An optional value: <<>> when there is none, <<v>> when it is v.
None == <<>>
Some(v) == <<v>>

Nil == "nil"
TheClient == "client"

\* GetAccountCurrentUser belongs to the client library, not to this repository.
\* It answers a user, or an error; with the error go-mastodon hands back a nil
\* account pointer, which the model allows without relying on it.
VerifyReplies ==
    { [err |-> FALSE, user |-> "acct"],
      [err |-> TRUE,  user |-> Nil],
      [err |-> TRUE,  user |-> "acct"] }
NoReply == [err |-> FALSE, user |-> "none"]

VerifyDiag == [severity |-> "error", path |-> "",
               summary |-> "Mastodon GetAccountCurrentUser Failed, API is not usable.",
               about |-> "verify"]

\* The second credentials check, after the validating call.
LateDiags(r) ==
    IF r["access_token"] # "" THEN <<>>
    ELSE IF r["email"] # "" /\ r["password"] # "" THEN <<>>
    ELSE <<Diag("user-access-token", "Missing Mastodon Credentials", "credentials")>>

Configure ==
    /\ configureResult = "pending"
    /\ LET r == [f \in Fields |-> Resolve(f)]
           d == FieldDiags(r)
       IN /\ resolved' = r
          /\ IF HasError(d)
             THEN \* if resp.Diagnostics.HasError() { return }
                  /\ diags' = d
                  /\ configureResult' = "returned"
                  /\ UNCHANGED <<verifyCalls, verifyReply, clientConfig,
                                 ResourceData, DataSourceData>>
             ELSE \E reply \in VerifyReplies :
                  /\ clientConfig' = Some(BuildConfig(r))
                  /\ verifyCalls' = verifyCalls + 1
                  /\ verifyReply' = reply
                  /\ IF reply.user = Nil
                     THEN \* user.Acct dereferences the nil account: the call panics
                          \* and the response is never handed back.
                          /\ configureResult' = "panicked"
                          /\ diags' = d \o DiagIf(reply.err, VerifyDiag)
                          /\ UNCHANGED <<ResourceData, DataSourceData>>
                     ELSE LET d2 == d \o DiagIf(reply.err, VerifyDiag) \o LateDiags(r)
                          IN /\ diags' = d2
                             /\ configureResult' = "returned"
                             /\ IF HasError(d2)
                                THEN UNCHANGED <<ResourceData, DataSourceData>>
                                ELSE /\ ResourceData' = TheClient
                                     /\ DataSourceData' = TheClient
    /\ UNCHANGED <<config, env, postVars, adapterVars, flightVars>>


ConfigureInit ==
    /\ config \in [Fields -> ConfigValues]
    /\ env \in [EnvVars -> EnvValues]
    /\ resolved = [f \in Fields |-> ""]
    /\ diags = <<>>
    /\ verifyCalls = 0
    /\ verifyReply = NoReply
    /\ clientConfig = None
    /\ ResourceData = Nil
    /\ DataSourceData = Nil
    /\ configureResult = "pending"

--------------------------------------------------------------------------
(* Content: the sanitizer and the server's rendering                       *)

\* Content is a sequence of characters; "&lt;" and "&gt;" stand for the
\* character references, which the tokenizer reads as one character each.
Letters == {"x", "y", "p"}

MaxLen == 3

RECURSIVE SeqsUpTo(_, _)
SeqsUpTo(S, n) ==
    IF n = 0 THEN {<<>>}
    ELSE LET shorter == SeqsUpTo(S, n - 1)
         IN shorter \cup {Append(q, c) : q \in {t \in shorter : Len(t) = n - 1}, c \in S}

\* The index of the first ">" at or after i, or 0.
RECURSIVE CloseAt(_, _)
CloseAt(s, i) ==
    IF i > Len(s) THEN 0
    ELSE IF s[i] = ">" THEN i
    ELSE CloseAt(s, i + 1)

\* bluemonday.NewPolicy().Sanitize: the empty policy allows no element, so
\* every tag is dropped and text is written back HTML-escaped. The tokenizer
\* takes "<" + letter as a start tag and "</" + letter as an end tag, each
\* running to the next ">" (input ending inside a tag is dropped); "</" before
\* anything else opens a comment running to the next ">"; any other "<" is text.
RECURSIVE SanitizeFrom(_, _)
SanitizeFrom(s, i) ==
    IF i > Len(s) THEN <<>>
    ELSE IF s[i] = "<" /\ i < Len(s) /\ s[i + 1] \in Letters
    THEN IF CloseAt(s, i) = 0 THEN <<>> ELSE SanitizeFrom(s, CloseAt(s, i) + 1)
    ELSE IF s[i] = "<" /\ i + 1 < Len(s) /\ s[i + 1] = "/"
    THEN IF CloseAt(s, i + 2) = 0 THEN <<>> ELSE SanitizeFrom(s, CloseAt(s, i + 2) + 1)
    ELSE IF s[i] = "<" THEN <<"&lt;">> \o SanitizeFrom(s, i + 1)
    ELSE IF s[i] = ">" THEN <<"&gt;">> \o SanitizeFrom(s, i + 1)
    ELSE <<s[i]>> \o SanitizeFrom(s, i + 1)

Sanitize(s) == SanitizeFrom(s, 1)

\* The server's formatter is not part of this repository. A server that takes
\* statuses as plain text escapes them; one that takes HTML keeps their markup;
\* both wrap the result in a paragraph element.
EscapeText(s) ==
    [i \in 1..Len(s) |-> IF s[i] = "<" THEN "&lt;" ELSE IF s[i] = ">" THEN "&gt;" ELSE s[i]]

Wrap(s) == <<"<", "p", ">">> \o s \o <<"<", "/", "p", ">">>

ServerModes == {"text", "html"}

Render(status) == IF server = "text" THEN Wrap(EscapeText(status)) ELSE Wrap(status)

--------------------------------------------------------------------------
(* The remote server: posts and the four status calls                      *)

MaxPosts == 2

PostIds == 1..MaxPosts
\* The id a null state id turns into: mastodon.ID(""), which names no post.
NoId == 0

\* The account the client is authenticated as.
ServerAccount == "acct"

UnusedPost == [status |-> "unused", content |-> <<>>, visibility |-> "", sensitive |-> FALSE]

IsLive(id) == id \in PostIds /\ remote[id].status = "live"

\* The mastodon.Status the server answers for a live post. Identifier, creation
\* time and author are fixed when the post is made.
StatusOf(id, post) ==
    [ID |-> id, CreatedAt |-> <<"created", id>>, Account |-> [ID |-> ServerAccount],
     Content |-> post.content, Visibility |-> post.visibility,
     Sensitive |-> post.sensitive]

FreeIds == {id \in PostIds : remote[id].status = "unused"}
NextId == CHOOSE id \in FreeIds : \A other \in FreeIds : id <= other

\* post.CreatedAt.String(): the time written out as text.
TimeString(t) == <<"time">> \o t

\* One remote call as the handlers make it.
Call(api, id, toot) == [api |-> api, id |-> id, toot |-> toot]
NoToot == [Status |-> <<>>, Visibility |-> "", Sensitive |-> FALSE]

--------------------------------------------------------------------------
(* Post resource: PostResource and its schema                              *)

Instances == {"a", "b"}

\* An attribute value: <<>> is null, <<v>> is the value v.
IsNullAttr(v) == v = <<>>
ValueOf(v, zero) == IF v = <<>> THEN zero ELSE v[1]

\* The configurations a declared post is given: content is required, the other
\* three attributes may be left unset.
PostConfigs ==
    { [content |-> <<"x">>, visibility |-> None, sensitive |-> None,
       preserve_on_destroy |-> None],
      [content |-> <<"<", "p", ">", "y">>, visibility |-> Some("private"),
       sensitive |-> Some(TRUE), preserve_on_destroy |-> Some(TRUE)],
      [content |-> <<"y", "<">>, visibility |-> Some("unlisted"),
       sensitive |-> Some(FALSE), preserve_on_destroy |-> Some(FALSE)] }

\* A schema without defaults: an unset attribute stays null.
DefaultIgnored(v, d) == v

\* Schema defaults: visibility "public", sensitive false, preserve_on_destroy false.
Default(v, d) == IF v = None THEN Some(d) ELSE v

\* The plan the framework hands to Create and Update: the configuration with
\* the defaults applied; the computed attributes come from the prior state
\* (UseStateForUnknown) and are unknown when there is none.
PlanOf(cfg, prior) ==
    [id                  |-> IF prior = None THEN None ELSE prior[1].id,
     created_at          |-> IF prior = None THEN None ELSE prior[1].created_at,
     account             |-> IF prior = None THEN None ELSE prior[1].account,
     content             |-> Some(cfg.content),
     visibility          |-> Default(cfg.visibility, "public"),
     sensitive           |-> Default(cfg.sensitive, FALSE),
     preserve_on_destroy |-> Default(cfg.preserve_on_destroy, FALSE)]

\* toot := mastodon.Toot{Status: ..., Visibility: ..., Sensitive: ...}
TootOf(data) ==
    [Status     |-> ValueOf(data.content, <<>>),
     Visibility |-> ValueOf(data.visibility, ""),
     Sensitive  |-> ValueOf(data.sensitive, FALSE)]

\* The six assignments with the content stored as the server returned it.
StoreRaw(data, post) ==
    [data EXCEPT !.id = Some(post.ID),
                 !.created_at = Some(TimeString(post.CreatedAt)),
                 !.account = Some(post.Account.ID),
                 !.content = Some(post.Content),
                 !.visibility = Some(post.Visibility),
                 !.sensitive = Some(post.Sensitive)]

\* Create: p := bluemonday.NewPolicy() and the six assignments from the post.
CreateStore(data, post) ==
    [data EXCEPT !.id = Some(post.ID),
                 !.created_at = Some(TimeString(post.CreatedAt)),
                 !.account = Some(post.Account.ID),
                 !.content = Some(Sanitize(post.Content)),
                 !.visibility = Some(post.Visibility),
                 !.sensitive = Some(post.Sensitive)]

\* Read: p := bluemonday.NewPolicy() and the six assignments from the post.
ReadStore(data, post) ==
    [data EXCEPT !.id = Some(post.ID),
                 !.created_at = Some(TimeString(post.CreatedAt)),
                 !.account = Some(post.Account.ID),
                 !.content = Some(Sanitize(post.Content)),
                 !.visibility = Some(post.Visibility),
                 !.sensitive = Some(post.Sensitive)]

\* Update: p := bluemonday.NewPolicy() and the six assignments from the post.
UpdateStore(data, post) ==
    [data EXCEPT !.id = Some(post.ID),
                 !.created_at = Some(TimeString(post.CreatedAt)),
                 !.account = Some(post.Account.ID),
                 !.content = Some(Sanitize(post.Content)),
                 !.visibility = Some(post.Visibility),
                 !.sensitive = Some(post.Sensitive)]

\* The steps of the resource and of its surroundings.
Op(op, inst, input, err, calls) ==
    [op |-> op, inst |-> inst, input |-> input, err |-> err, calls |-> calls]

NoInput == [content |-> <<>>, visibility |-> None, sensitive |-> None,
            preserve_on_destroy |-> None]

\* Instances holding the post id, other than i.
OthersOn(id, i) ==
    {j \in Instances \ {i} : state[j] # None /\ state[j][1].id = Some(id)}

\* PostResource.Create
Create(i, cfg) ==
    /\ state[i] = None
    /\ FreeIds # {}
    /\ LET data == PlanOf(cfg, None)
           toot == TootOf(data)
       IN \E fail \in BOOLEAN :
          IF fail
          THEN \* the call failed: an error diagnostic, no state is set
               /\ lastOp' = Op("Create", i, cfg, TRUE, <<Call("PostStatus", NoId, toot)>>)
               /\ UNCHANGED <<remote, state, origin, fresh>>
          ELSE LET id == NextId
                   made == [status |-> "live", content |-> Render(toot.Status),
                            visibility |-> toot.Visibility, sensitive |-> toot.Sensitive]
               IN /\ remote' = [remote EXCEPT ![id] = made]
                  /\ state' = [state EXCEPT ![i] = Some(CreateStore(data, StatusOf(id, made)))]
                  /\ lastOp' = Op("Create", i, cfg, FALSE, <<Call("PostStatus", NoId, toot)>>)
                  /\ origin' = [origin EXCEPT ![i] = "create"]
                  /\ fresh' = fresh \cup {i}
    /\ UNCHANGED <<server, providerVars, adapterVars, flightVars>>

\* The state after a Read whose call failed, were Read to drop the resource.
AfterFailedReadRemoved(i) == [state EXCEPT ![i] = None]

\* The state after a Read whose call failed: Read returns before State.Set, and
\* resp.State starts as the prior state, so the state is as it was.
AfterFailedRead(i) == state

\* Read without the back-fill.
BackfillPreserveSkipped(data) == data

\* During imports the preserve_on_destroy attribute may not be set.
BackfillPreserve(data) ==
    IF IsNullAttr(data.preserve_on_destroy)
    THEN [data EXCEPT !.preserve_on_destroy = Some(FALSE)]
    ELSE data

\* An Update that addresses the server's first post instead of the stored one.
UpdateTargetFirst(data) == CHOOSE id \in PostIds : \A other \in PostIds : id <= other

\* mastodon.ID(data.Id.ValueString()) in Update: the id the plan carries.
UpdateTarget(data) == ValueOf(data.id, NoId)

\* A Delete that never looks at the flag.
PreservedNever(data) == FALSE

\* data.PreserveOnDestroy.ValueBool(): false for a null flag.
Preserved(data) == ValueOf(data.preserve_on_destroy, FALSE)

\* A state that ImportState wrote and Read has not filled in yet. The host runs
\* Read on an imported resource before any other handler.
IsStub(i) == state[i] # None /\ state[i][1].created_at = None

\* PostResource.Read. resp.State starts as the prior state, so a return before
\* State.Set leaves the state as it was.
Read(i) ==
    /\ state[i] # None
    /\ LET data == state[i][1]
           id == ValueOf(data.id, NoId)
           calls == <<Call("GetStatus", id, NoToot)>>
       IN \E fail \in BOOLEAN :
          IF fail \/ ~IsLive(id)
          THEN /\ lastOp' = Op("Read", i, NoInput, TRUE, calls)
               /\ state' = AfterFailedRead(i)
               /\ UNCHANGED fresh
          ELSE LET got == ReadStore(data, StatusOf(id, remote[id]))
                   filled == BackfillPreserve(got)
               IN /\ state' = [state EXCEPT ![i] = Some(filled)]
                  /\ lastOp' = Op("Read", i, NoInput, FALSE, calls)
                  /\ fresh' = fresh \cup {i}
    /\ UNCHANGED <<server, remote, origin, providerVars, adapterVars, flightVars>>

\* PostResource.Update
Update(i, cfg) ==
    /\ state[i] # None
    /\ ~IsStub(i)
    /\ LET data == PlanOf(cfg, state[i])
           toot == TootOf(data)
           id == UpdateTarget(data)
           calls == <<Call("UpdateStatus", id, toot)>>
       IN \E fail \in BOOLEAN :
          IF fail \/ ~IsLive(id)
          THEN /\ lastOp' = Op("Update", i, cfg, TRUE, calls)
               /\ UNCHANGED <<remote, state, fresh>>
          ELSE LET made == [status |-> "live", content |-> Render(toot.Status),
                            visibility |-> toot.Visibility, sensitive |-> toot.Sensitive]
               IN /\ remote' = [remote EXCEPT ![id] = made]
                  /\ state' = [state EXCEPT ![i] = Some(UpdateStore(data, StatusOf(id, made)))]
                  /\ lastOp' = Op("Update", i, cfg, FALSE, calls)
                  /\ fresh' = (IF made = remote[id] THEN fresh ELSE fresh \ OthersOn(id, i))
                              \cup {i}
    /\ UNCHANGED <<server, origin, providerVars, adapterVars, flightVars>>

DeletedPost == [status |-> "deleted", content |-> <<>>, visibility |-> "", sensitive |-> FALSE]

\* PostResource.Delete. The framework removes the resource from the state when
\* Delete returns without an error diagnostic, and keeps it otherwise.
Delete(i) ==
    /\ state[i] # None
    /\ ~IsStub(i)
    /\ LET data == state[i][1]
           id == ValueOf(data.id, NoId)
           calls == <<Call("DeleteStatus", id, NoToot)>>
       IN IF Preserved(data)
          THEN \* preserve_on_destroy is enabled: return before the call
               /\ state' = [state EXCEPT ![i] = None]
               /\ lastOp' = Op("Delete", i, NoInput, FALSE, <<>>)
               /\ origin' = [origin EXCEPT ![i] = "none"]
               /\ fresh' = fresh \ {i}
               /\ UNCHANGED remote
          ELSE \E fail \in BOOLEAN :
               IF fail \/ ~IsLive(id)
               THEN /\ lastOp' = Op("Delete", i, NoInput, TRUE, calls)
                    /\ UNCHANGED <<remote, state, origin, fresh>>
               ELSE /\ remote' = [remote EXCEPT ![id] = DeletedPost]
                    /\ state' = [state EXCEPT ![i] = None]
                    /\ lastOp' = Op("Delete", i, NoInput, FALSE, calls)
                    /\ origin' = [origin EXCEPT ![i] = "none"]
                    /\ fresh' = fresh \ ({i} \cup OthersOn(id, i))
    /\ UNCHANGED <<server, providerVars, adapterVars, flightVars>>

NullPost == [id |-> None, created_at |-> None, account |-> None, content |-> None,
             visibility |-> None, sensitive |-> None, preserve_on_destroy |-> None]

\* PostResource.ImportState: ImportStatePassthroughID sets the id attribute of
\* an otherwise null state.
ImportState(i, id) ==
    /\ state[i] = None
    /\ state' = [state EXCEPT ![i] = Some([NullPost EXCEPT !.id = Some(id)])]
    /\ lastOp' = Op("ImportState", i, NoInput, FALSE, <<>>)
    /\ origin' = [origin EXCEPT ![i] = "import"]
    /\ fresh' = fresh \ {i}
    /\ UNCHANGED <<server, remote, providerVars, adapterVars, flightVars>>

Holders(id) == {j \in Instances : state[j] # None /\ state[j][1].id = Some(id)}

\* Out-of-band: the post is deleted on the server.
RemoteDelete(id) ==
    /\ IsLive(id)
    /\ remote' = [remote EXCEPT ![id] = DeletedPost]
    /\ lastOp' = Op("RemoteDelete", "", NoInput, FALSE, <<>>)
    /\ fresh' = fresh \ Holders(id)
    /\ UNCHANGED <<server, state, origin, providerVars, adapterVars, flightVars>>

--------------------------------------------------------------------------
(* Adapter Configure and the account data source                           *)

Adapters == {"post", "account"}

\* A provider data value that is not a *mastodon.Client.
WrongType == "other"

\* What the host passes as req.ProviderData: the provider's ResourceData to a
\* resource, its DataSourceData to a data source; nil until the provider's
\* Configure has set them.
HandedTo(a) == IF a = "post" THEN ResourceData ELSE DataSourceData

ProviderDataValues(a) == {HandedTo(a), WrongType}

\* A Configure that stores whatever it is given and never complains.
PostConfigureStoresAny(pd, held) == [client |-> pd, err |-> FALSE]

\* PostResource.Configure: the client held afterwards and whether an error
\* was reported. A nil provider data returns at once; a value of another type
\* adds "Unexpected Resource Configure Type"; a client is stored.
PostConfigureResult(pd, held) ==
    IF pd = Nil THEN [client |-> held, err |-> FALSE]
    ELSE IF pd # TheClient THEN [client |-> held, err |-> TRUE]
    ELSE [client |-> pd, err |-> FALSE]

\* AccountDataSource.Configure: as above, with "Unexpected Data Source
\* Configure Type".
AccountConfigureResult(pd, held) ==
    IF pd = Nil THEN [client |-> held, err |-> FALSE]
    ELSE IF pd # TheClient THEN [client |-> held, err |-> TRUE]
    ELSE [client |-> pd, err |-> FALSE]

NotConfigured == [client |-> Nil, data |-> "none", err |-> FALSE]

\* PostResource.Configure
PostConfigure(pd) ==
    /\ LET res == PostConfigureResult(pd, adapter["post"].client)
       IN /\ adapter' = [adapter EXCEPT !["post"] =
                             [client |-> res.client, data |-> pd, err |-> res.err]]
          /\ lastOp' = Op("PostConfigure", "post", NoInput, res.err, <<>>)
    /\ UNCHANGED <<server, remote, state, origin, fresh, accounts, accountState,
                   providerVars, flightVars>>

\* AccountDataSource.Configure
AccountConfigure(pd) ==
    /\ LET res == AccountConfigureResult(pd, adapter["account"].client)
       IN /\ adapter' = [adapter EXCEPT !["account"] =
                             [client |-> res.client, data |-> pd, err |-> res.err]]
          /\ lastOp' = Op("AccountConfigure", "account", NoInput, res.err, <<>>)
    /\ UNCHANGED <<server, remote, state, origin, fresh, accounts, accountState,
                   providerVars, flightVars>>

\* The host runs an adapter's handlers only after the provider's Configure
\* returned without an error and the adapter's Configure, given the provider's
\* data, reported none either.
HostRuns(a) ==
    /\ configureResult = "returned"
    /\ ~HasError(diags)
    /\ adapter[a].data = HandedTo(a)
    /\ ~adapter[a].err

\* The declared data sources and the usernames their configurations give.
DataSources == {"test"}
Usernames == {"tedivm@hachyderm.io", "bot@example.social", "nobody@example.social"}

\* mastodon.Account, as far as Read uses it.
Account(id, name, note, locked, bot) ==
    [ID |-> id, DisplayName |-> name, Note |-> note, Locked |-> locked, Bot |-> bot]

\* The server's accounts: two usernames resolve, the third does not.
AccountDirectories ==
    { [u \in Usernames |->
         CASE u = "tedivm@hachyderm.io" ->
                  Some(Account("1", "Robert", <<"<", "p", ">", "x">>, lockedFirst, FALSE))
           [] u = "bot@example.social" ->
                  Some(Account("2", "", <<>>, ~lockedFirst, TRUE))
           [] OTHER -> None] : lockedFirst \in BOOLEAN }

\* req.Config.Get: the username as configured, the computed attributes null.
AccountConfig(u) ==
    [username |-> Some(u), id |-> None, display_name |-> None, note |-> None,
     locked |-> None, bot |-> None]

LookupCall(username) == [api |-> "AccountLookup", username |-> username]

\* A Read that takes the bot flag from the locked flag.
AccountStoreBotFromLocked(data, account) ==
    [data EXCEPT !.id = Some(account.ID),
                 !.display_name = Some(account.DisplayName),
                 !.note = Some(account.Note),
                 !.locked = Some(account.Locked),
                 !.bot = Some(account.Locked)]

\* The five assignments of Read from the account the lookup returned.
AccountStore(data, account) ==
    [data EXCEPT !.id = Some(account.ID),
                 !.display_name = Some(account.DisplayName),
                 !.note = Some(account.Note),
                 !.locked = Some(account.Locked),
                 !.bot = Some(account.Bot)]

\* AccountDataSource.Read. The state is written by State.Set alone, so a
\* return before it leaves the state as it was.
AccountRead(d, u) ==
    /\ LET data == AccountConfig(u)
           username == ValueOf(data.username, "")
           calls == <<LookupCall(username)>>
       IN \E fail \in BOOLEAN :
          IF fail \/ accounts[username] = None
          THEN /\ lastOp' = Op("AccountRead", d, [username |-> u], TRUE, calls)
               /\ UNCHANGED accountState
          ELSE /\ accountState' = [accountState EXCEPT
                                      ![d] = Some(AccountStore(data, accounts[username][1]))]
               /\ lastOp' = Op("AccountRead", d, [username |-> u], FALSE, calls)
    /\ UNCHANGED <<server, remote, state, origin, fresh, adapter, accounts,
                   providerVars, flightVars>>

--------------------------------------------------------------------------
(* Handlers in flight                                                      *)

\* Whatever runs handlers one at a time: a post instance or a data source.
Owners == Instances \cup DataSources

\* All post handlers sharing one set of local variables.
SlotShared(o) == IF o \in Instances THEN "a" ELSE o

\* Each invocation of a handler has its own local variables (var data ...).
Slot(o) == o

Slots == {Slot(o) : o \in Owners}

PostOps == {"Create", "Read", "Update", "Delete"}

\* The inputs a handler can be started with: the configuration that leaves
\* everything but the content unset and the one that sets everything; a
\* username that resolves and one that does not.
FlightConfigs == {cfg \in PostConfigs : cfg.sensitive # Some(FALSE)}
FlightUsernames == {"tedivm@hachyderm.io", "nobody@example.social"}

InputsOf(op) ==
    CASE op \in {"Create", "Update"} -> FlightConfigs
      [] op \in {"Read", "Delete"}   -> {NoInput}
      [] op = "AccountRead"          -> {[username |-> u] : u \in FlightUsernames}

\* The stored state of an owner.
StoredFor(o) == IF o \in Instances THEN state[o] ELSE accountState[o]

\* The host starts a handler where the sequential model does.
CanBegin(o, op) ==
    CASE op = "Create"                      -> o \in Instances /\ state[o] = None
      [] op \in {"Read", "Update", "Delete"} -> o \in Instances /\ state[o] # None
      [] op = "AccountRead"                  -> o \in DataSources

\* req.Plan.Get, req.State.Get or req.Config.Get into the handler's data.
LocalsFor(o, op, input) ==
    CASE op = "Create"              -> PlanOf(input, None)
      [] op = "Update"              -> PlanOf(input, state[o])
      [] op \in {"Read", "Delete"}  -> state[o][1]
      [] op = "AccountRead"         -> AccountConfig(input.username)

NoResult == [none |-> TRUE]

\* The handler of owner o is entered and reads its input into its locals.
Begin(o, op, input) ==
    /\ ticket[o] = None
    /\ CanBegin(o, op)
    /\ inflight' = [inflight EXCEPT ![Slot(o)] =
                       Some([op |-> op, data |-> LocalsFor(o, op, input), answer |-> None])]
    /\ ticket' = [ticket EXCEPT ![o] =
                     Some([op |-> op, input |-> input, prior |-> None,
                           sent |-> <<>>, answer |-> None])]
    /\ lastOp' = Op("Begin", o, NoInput, FALSE, <<>>)
    /\ UNCHANGED <<server, remote, state, origin, fresh, adapterVars, providerVars>>

\* What the handler's one client call can do, from the handler's locals: the
\* call made, whether it failed, the value returned and the server afterwards.
CallOutcomes(f) ==
    LET id == IF f.op = "Update" THEN UpdateTarget(f.data)
              ELSE IF f.op \in {"Read", "Delete"} THEN ValueOf(f.data.id, NoId)
              ELSE NoId
        toot == IF f.op \in {"Create", "Update"} THEN TootOf(f.data) ELSE NoToot
        made == [status |-> "live", content |-> Render(toot.Status),
                 visibility |-> toot.Visibility, sensitive |-> toot.Sensitive]
        call == CASE f.op = "Create"      -> Call("PostStatus", NoId, toot)
                  [] f.op = "Read"        -> Call("GetStatus", id, NoToot)
                  [] f.op = "Update"      -> Call("UpdateStatus", id, toot)
                  [] f.op = "Delete"      -> Call("DeleteStatus", id, NoToot)
                  [] f.op = "AccountRead" -> LookupCall(ValueOf(f.data.username, ""))
        failed == [sent |-> <<call>>, err |-> TRUE, result |-> NoResult, remote |-> remote]
        done(result, after) ==
            [sent |-> <<call>>, err |-> FALSE, result |-> result, remote |-> after]
    IN CASE f.op = "Create" ->
              {failed} \cup
              (IF FreeIds = {} THEN {}
               ELSE {done(StatusOf(NextId, made), [remote EXCEPT ![NextId] = made])})
         [] f.op = "Read" ->
              {failed} \cup
              (IF ~IsLive(id) THEN {} ELSE {done(StatusOf(id, remote[id]), remote)})
         [] f.op = "Update" ->
              {failed} \cup
              (IF ~IsLive(id) THEN {}
               ELSE {done(StatusOf(id, made), [remote EXCEPT ![id] = made])})
         [] f.op = "Delete" ->
              IF Preserved(f.data)
              THEN {[sent |-> <<>>, err |-> FALSE, result |-> NoResult, remote |-> remote]}
              ELSE {failed} \cup
                   (IF ~IsLive(id) THEN {}
                    ELSE {done(NoResult, [remote EXCEPT ![id] = DeletedPost])})
         [] f.op = "AccountRead" ->
              LET username == ValueOf(f.data.username, "")
              IN {failed} \cup
                 (IF accounts[username] = None THEN {}
                  ELSE {done(accounts[username][1], remote)})

\* The handler of owner o makes its client call (or, in a preserving Delete,
\* skips it); the server answers at once.
RemoteStep(o) ==
    /\ ticket[o] # None
    /\ ticket[o][1].answer = None
    /\ inflight[Slot(o)] # None
    /\ \E out \in CallOutcomes(inflight[Slot(o)][1]) :
          LET answer == Some([err |-> out.err, result |-> out.result])
          IN /\ remote' = out.remote
             /\ inflight' = [inflight EXCEPT ![Slot(o)][1].answer = answer]
             /\ ticket' = [ticket EXCEPT ![o][1].answer = answer,
                                         ![o][1].sent = out.sent,
                                         ![o][1].prior = StoredFor(o)]
    /\ lastOp' = Op("Call", o, NoInput, FALSE, <<>>)
    /\ UNCHANGED <<server, state, origin, fresh, adapterVars, providerVars>>

\* What the handler leaves in the state: on an error what was there, otherwise
\* what it stores from its locals and the value returned.
StoredBy(f, prior) ==
    LET answer == f.answer[1]
    IN IF answer.err THEN prior
       ELSE CASE f.op = "Create"      -> Some(CreateStore(f.data, answer.result))
              [] f.op = "Read"        -> Some(BackfillPreserve(ReadStore(f.data, answer.result)))
              [] f.op = "Update"      -> Some(UpdateStore(f.data, answer.result))
              [] f.op = "Delete"      -> None
              [] f.op = "AccountRead" -> Some(AccountStore(f.data, answer.result))

\* The handler of owner o returns and the host stores its response.
Finish(o) ==
    /\ ticket[o] # None
    /\ ticket[o][1].answer # None
    /\ inflight[Slot(o)] # None
    /\ inflight[Slot(o)][1].answer # None
    /\ LET f == inflight[Slot(o)][1]
       IN /\ IF o \in Instances
             THEN /\ state' = [state EXCEPT ![o] = StoredBy(f, state[o])]
                  /\ UNCHANGED accountState
             ELSE /\ accountState' = [accountState EXCEPT ![o] = StoredBy(f, accountState[o])]
                  /\ UNCHANGED state
          /\ lastOp' = Op("Finish", o, NoInput, f.answer[1].err, <<>>)
    /\ inflight' = [inflight EXCEPT ![Slot(o)] = None]
    /\ ticket' = [ticket EXCEPT ![o] = None]
    /\ UNCHANGED <<server, remote, origin, fresh, adapter, accounts, providerVars>>

--------------------------------------------------------------------------
(* Specifications                                                          *)

PostInit ==
    /\ remote = [id \in PostIds |-> UnusedPost]
    /\ state = [i \in Instances |-> None]
    /\ lastOp = Op("none", "", NoInput, FALSE, <<>>)
    /\ origin = [i \in Instances |-> "none"]
    /\ fresh = {}

\* The environment the acceptance tests require: host, client id, client secret
\* and access token set, nothing in the configuration.
TestEnv == [v \in EnvVars |-> IF v \in {"MASTODON_USER_EMAIL", "MASTODON_USER_PASSWORD"}
                              THEN "" ELSE "env"]

\* The provider as a successful Configure leaves it.
ConfiguredInit ==
    /\ config = [f \in Fields |-> Null]
    /\ env = TestEnv
    /\ resolved = [f \in Fields |-> TestEnv[EnvVar(f)]]
    /\ diags = <<>>
    /\ verifyCalls = 1
    /\ verifyReply = [err |-> FALSE, user |-> "acct"]
    /\ clientConfig = Some(BuildConfig([f \in Fields |-> TestEnv[EnvVar(f)]]))
    /\ ResourceData = TheClient
    /\ DataSourceData = TheClient
    /\ configureResult = "returned"

\* The adapters as the host has configured them once the provider succeeded.
AdaptersConfigured ==
    adapter = [a \in Adapters |-> [client |-> TheClient, data |-> TheClient, err |-> FALSE]]

AccountInit == accountState = [d \in DataSources |-> None]

\* No handler is running.
FlightInit ==
    /\ inflight = [s \in Slots |-> None]
    /\ ticket = [o \in Owners |-> None]

TestAccounts == CHOOSE dir \in AccountDirectories : dir["tedivm@hachyderm.io"][1].Locked = FALSE

Init ==
    /\ ConfiguredInit /\ server \in ServerModes /\ PostInit
    /\ AdaptersConfigured /\ accounts = TestAccounts /\ AccountInit /\ FlightInit

Next ==
    \/ \E i \in Instances, cfg \in PostConfigs : Create(i, cfg)
    \/ \E i \in Instances : Read(i)
    \/ \E i \in Instances, cfg \in PostConfigs : Update(i, cfg)
    \/ \E i \in Instances : Delete(i)
    \/ \E i \in Instances, id \in PostIds : ImportState(i, id)
    \/ \E id \in PostIds : RemoteDelete(id)

Spec == Init /\ [][Next]_vars

InitConfigure ==
    /\ ConfigureInit /\ server = "text" /\ PostInit
    /\ adapter = [a \in Adapters |-> NotConfigured]
    /\ accounts = TestAccounts /\ AccountInit /\ FlightInit

NextConfigure == Configure

SpecConfigure == InitConfigure /\ [][NextConfigure]_vars

\* The provider and both adapters from before anything is configured: the
\* acceptance tests' environment or an empty one, the declared posts and the
\* declared account data source.
NoEnv == [v \in EnvVars |-> ""]

InitAdapters ==
    /\ config = [f \in Fields |-> Null]
    /\ env \in {TestEnv, NoEnv}
    /\ resolved = [f \in Fields |-> ""]
    /\ diags = <<>>
    /\ verifyCalls = 0
    /\ verifyReply = NoReply
    /\ clientConfig = None
    /\ ResourceData = Nil
    /\ DataSourceData = Nil
    /\ configureResult = "pending"
    /\ server = "text" /\ PostInit
    /\ adapter = [a \in Adapters |-> NotConfigured]
    /\ accounts \in AccountDirectories
    /\ AccountInit /\ FlightInit

NextAdapters ==
    \/ Configure
    \/ \E pd \in ProviderDataValues("post") : PostConfigure(pd)
    \/ \E pd \in ProviderDataValues("account") : AccountConfigure(pd)
    \/ HostRuns("post") /\ \E i \in Instances, cfg \in PostConfigs : Create(i, cfg)
    \/ HostRuns("post") /\ \E i \in Instances : Read(i)
    \/ HostRuns("post") /\ \E i \in Instances, cfg \in PostConfigs : Update(i, cfg)
    \/ HostRuns("post") /\ \E i \in Instances : Delete(i)
    \/ HostRuns("account") /\ \E d \in DataSources, u \in Usernames : AccountRead(d, u)

SpecAdapters == InitAdapters /\ [][NextAdapters]_vars

\* The handlers of the declared posts and of the data source, started by the
\* host whenever their owner is idle and run step by step side by side.
InitConcurrent ==
    /\ ConfiguredInit /\ server = "text" /\ PostInit
    /\ AdaptersConfigured /\ accounts = TestAccounts /\ AccountInit /\ FlightInit

NextConcurrent ==
    \/ \E o \in Owners, op \in PostOps \cup {"AccountRead"} :
          \E input \in InputsOf(op) : Begin(o, op, input)
    \/ \E o \in Owners : RemoteStep(o)
    \/ \E o \in Owners : Finish(o)

SpecConcurrent == InitConcurrent /\ [][NextConcurrent]_vars

--------------------------------------------------------------------------
(* Properties of the provider root, checked under SpecConfigure            *)

ConfigureDone == configureResult # "pending"

\* The resolved values make a complete credential set.
ValidCredentialSet ==
    /\ resolved["host"] # ""
    /\ resolved["client_id"] # ""
    /\ resolved["client_secret"] # ""
    /\ \/ resolved["access_token"] # ""
       \/ resolved["email"] # "" /\ resolved["password"] # ""

UnknownFields == {f \in Fields : config[f].kind = "unknown"}

\* Configure returned without an error and handed the client to both adapters.
ConfigureSucceeded ==
    /\ configureResult = "returned"
    /\ ~HasError(diags)
    /\ ResourceData = TheClient
    /\ DataSourceData = TheClient

\* Configure returned an error diagnostic and handed no client to any adapter.
ConfigureFailed ==
    /\ configureResult = "returned"
    /\ HasError(diags)
    /\ ResourceData = Nil
    /\ DataSourceData = Nil

\* C3 as stated: every complete credential set is accepted unless the
\* validating call fails, and every incomplete one is rejected with no client
\* handed out.
C3_AsStated ==
    ConfigureDone =>
        /\ (ValidCredentialSet /\ ~verifyReply.err) => ConfigureSucceeded
        /\ ~ValidCredentialSet => ConfigureFailed

\* C3, amended: a complete credential set is accepted when, in addition, no
\* attribute of the configuration is unknown and the validating call succeeds;
\* every incomplete credential set is rejected with no client handed out.
C3_CredentialSets ==
    ConfigureDone =>
        /\ (ValidCredentialSet /\ UnknownFields = {} /\ ~verifyReply.err)
               => ConfigureSucceeded
        /\ ~ValidCredentialSet => ConfigureFailed

\* Configure accepted an email and password pair with no access token.
C3_Witness ==
    /\ ConfigureSucceeded
    /\ resolved["access_token"] = ""
    /\ resolved["email"] # ""
    /\ resolved["password"] # ""

\* C4: once the field checks pass, Configure makes exactly one validating call,
\* and when that call fails it ends with an error diagnostic and hands no
\* client to the adapters.
C4_ValidationFailureIsAnError ==
    (ConfigureDone /\ ValidCredentialSet /\ UnknownFields = {}) =>
        /\ verifyCalls = 1
        /\ verifyReply.err => ConfigureFailed

\* C9: each setting resolves to its configuration value when that is non-null
\* (the empty string for an unknown one) and to its environment variable
\* otherwise.
C9_ConfigurationOverridesEnvironment ==
    ConfigureDone =>
        \A f \in Fields :
            /\ config[f].kind = "known" => resolved[f] = config[f].value
            /\ config[f].kind = "unknown" => resolved[f] = ""
            /\ config[f].kind = "null" => resolved[f] = env[EnvVar(f)]

\* A set configuration value won over a set environment variable, and another
\* setting fell back to its environment variable.
C9_Witness ==
    /\ ConfigureDone
    /\ \E f \in Fields :
          config[f] = Known("cfg") /\ env[EnvVar(f)] = "env" /\ resolved[f] = "cfg"
    /\ \E f \in Fields :
          config[f] = Null /\ env[EnvVar(f)] = "env" /\ resolved[f] = "env"

RequiredFields == {"host", "client_id", "client_secret"}
MissingFields == {f \in RequiredFields : resolved[f] = ""}
CredentialsMissing ==
    resolved["access_token"] = "" /\ (resolved["email"] = "" \/ resolved["password"] = "")

UnknownSummaries ==
    {"Unknown Mastodon API Host", "Unknown Mastodon Client ID",
     "Unknown Mastodon Client Secret", "Unknown Mastodon User Email",
     "Unknown Mastodon User Password"}

Reported(summaries, about) ==
    \E k \in 1..Len(diags) : diags[k].summary \in summaries /\ diags[k].about = about

\* C10: every unknown setting and every missing required setting has its own
\* error in the diagnostics of the one call, nothing else is reported, and no
\* remote call is made when any of them exists.
C10_AllProblemsReportedBeforeAnyCall ==
    ConfigureDone =>
        /\ \A f \in UnknownFields : Reported(UnknownSummaries, f)
        /\ \A f \in MissingFields : Reported({"Missing Mastodon Credentials"}, f)
        /\ CredentialsMissing => Reported({"Missing Mastodon Credentials"}, "credentials")
        /\ (UnknownFields # {} \/ MissingFields # {} \/ CredentialsMissing) =>
               /\ verifyCalls = 0
               /\ Len(diags) = Cardinality(UnknownFields) + Cardinality(MissingFields)
                               + (IF CredentialsMissing THEN 1 ELSE 0)

\* Three problems at once, all reported, and no call made.
C10_Witness ==
    /\ ConfigureDone
    /\ "host" \in MissingFields
    /\ "client_secret" \in UnknownFields
    /\ CredentialsMissing
    /\ Len(diags) >= 3
    /\ verifyCalls = 0

\* The spellings under which an error's path names the attribute f.
PathsOf(f) ==
    CASE f = "host"          -> {"host"}
      [] f = "client_id"     -> {"client_id", "client-id"}
      [] f = "client_secret" -> {"client_secret", "client-secret"}
      [] f = "email"         -> {"email", "user-email"}
      [] f = "password"      -> {"password", "user-password"}
      [] f = "access_token"  -> {"access_token", "user-access-token"}

CredentialPaths == PathsOf("email") \cup PathsOf("password") \cup PathsOf("access_token")

\* C11: every "missing" error is attributed to the setting that is missing: an
\* empty host to the host attribute, an empty client id to the client id
\* attribute, an empty client secret to the client secret attribute, and
\* missing credentials to one of the credential attributes.
C11_MissingErrorNamesItsField ==
    ConfigureDone =>
        \A k \in 1..Len(diags) :
            diags[k].summary = "Missing Mastodon Credentials" =>
                IF diags[k].about \in RequiredFields
                THEN diags[k].path \in PathsOf(diags[k].about)
                ELSE diags[k].path \in CredentialPaths

--------------------------------------------------------------------------
(* Properties of the post resource, checked under Spec                     *)

\* Every step records itself in lastOp, so lastOp' names the step just taken,
\* the unprimed variables are the state it started from and the primed ones
\* the state it left.
Stepped(ops) == lastOp'.op \in ops

\* The toot a configuration leads to once the schema defaults are applied.
ExpectedToot(cfg) ==
    [Status     |-> cfg.content,
     Visibility |-> IF cfg.visibility = None THEN "public" ELSE cfg.visibility[1],
     Sensitive  |-> IF cfg.sensitive = None THEN FALSE ELSE cfg.sensitive[1]]

ExpectedPreserve(cfg) ==
    IF cfg.preserve_on_destroy = None THEN Some(FALSE) ELSE cfg.preserve_on_destroy

\* C1: Delete of a post whose preserve_on_destroy is true makes no remote call,
\* reports no error and leaves every remote post as it was; any other Delete
\* makes exactly one DeleteStatus call, for the stored id.
C1_DeleteHonoursPreserve ==
    [][Stepped({"Delete"}) =>
        LET i == lastOp'.inst
            before == state[i][1]
        IN IF before.preserve_on_destroy = Some(TRUE)
           THEN /\ lastOp'.calls = <<>>
                /\ ~lastOp'.err
                /\ remote' = remote
                /\ state'[i] = None
           ELSE /\ Len(lastOp'.calls) = 1
                /\ lastOp'.calls[1].api = "DeleteStatus"
                /\ lastOp'.calls[1].id = before.id[1]
                /\ lastOp'.err => state' = state
    ]_vars

\* A preserving Delete ran: the resource is gone from the state and its post
\* is still live on the server, held by no instance.
C1_Witness ==
    /\ lastOp.op = "Delete"
    /\ lastOp.calls = <<>>
    /\ ~lastOp.err
    /\ state[lastOp.inst] = None
    /\ \E id \in PostIds : IsLive(id) /\ Holders(id) = {}

\* C2: Create makes one PostStatus call carrying the planned content,
\* visibility and sensitive. When it succeeds one new post exists and the state
\* holds its id, created_at, account, visibility and sensitive and its
\* sanitized content; when it fails an error is reported and no state is set.
C2_CreateStoresReturnedPost ==
    [][Stepped({"Create"}) =>
        LET i == lastOp'.inst
            cfg == lastOp'.input
        IN /\ state[i] = None
           /\ lastOp'.calls = <<Call("PostStatus", NoId, ExpectedToot(cfg))>>
           /\ IF lastOp'.err
              THEN state' = state
              ELSE \E id \in PostIds :
                   /\ remote[id].status = "unused"
                   /\ remote'[id].status = "live"
                   /\ \A other \in PostIds \ {id} : remote'[other] = remote[other]
                   /\ \A j \in Instances \ {i} : state'[j] = state[j]
                   /\ LET post == StatusOf(id, remote'[id])
                      IN state'[i] = Some(
                           [id                  |-> Some(post.ID),
                            created_at          |-> Some(TimeString(post.CreatedAt)),
                            account             |-> Some(post.Account.ID),
                            content             |-> Some(Sanitize(post.Content)),
                            visibility          |-> Some(post.Visibility),
                            sensitive           |-> Some(post.Sensitive),
                            preserve_on_destroy |-> ExpectedPreserve(cfg)])
    ]_vars

\* A Create succeeded and stored content that differs from what the server
\* returned: the sanitizer had markup to strip.
C2_Witness ==
    /\ lastOp.op = "Create"
    /\ ~lastOp.err
    /\ state[lastOp.inst] # None
    /\ LET data == state[lastOp.inst][1]
       IN /\ data.content = Some(Sanitize(remote[data.id[1]].content))
          /\ data.content # Some(remote[data.id[1]].content)

SameComputed(x, y) ==
    /\ x.id = y.id
    /\ x.created_at = y.created_at
    /\ x.account = y.account
    /\ x.content = y.content
    /\ x.visibility = y.visibility
    /\ x.sensitive = y.sensitive

\* Instances that were created, hold post `id`, and whose post has not changed
\* on the server since they last stored it.
CreatedAndCurrent(id) ==
    {j \in Instances : origin[j] = "create" /\ j \in fresh /\ state[j][1].id = Some(id)}

\* C5 as stated: the first Read of an imported post leaves a state identical to
\* that of the created resource holding the same post.
C5_AsStated ==
    [][(Stepped({"Read"}) /\ ~lastOp'.err /\ IsStub(lastOp'.inst)) =>
        LET i == lastOp'.inst
            imported == state'[i][1]
        IN /\ imported.preserve_on_destroy = Some(FALSE)
           /\ \A j \in CreatedAndCurrent(imported.id[1]) :
                 /\ SameComputed(imported, state[j][1])
                 /\ state'[i] = state[j]
    ]_vars

\* C5, amended: the first Read of an imported post yields the id, created_at,
\* account, content, visibility and sensitive of the created resource holding
\* the same post and sets preserve_on_destroy to false; the two states are
\* identical exactly when the created resource's preserve_on_destroy is false.
C5_ImportMatchesCreate ==
    [][(Stepped({"Read"}) /\ ~lastOp'.err /\ IsStub(lastOp'.inst)) =>
        LET i == lastOp'.inst
            imported == state'[i][1]
        IN /\ imported.preserve_on_destroy = Some(FALSE)
           /\ \A j \in CreatedAndCurrent(imported.id[1]) :
                 /\ SameComputed(imported, state[j][1])
                 /\ (state'[i] = state[j])
                        <=> (state[j][1].preserve_on_destroy = Some(FALSE))
    ]_vars

\* An imported post was read while a created instance with preserve_on_destroy
\* true holds the same, unchanged post: the computed attributes agree.
C5_Witness ==
    /\ lastOp.op = "Read"
    /\ ~lastOp.err
    /\ origin[lastOp.inst] = "import"
    /\ lastOp.inst \in fresh
    /\ \E j \in CreatedAndCurrent(state[lastOp.inst][1].id[1]) :
          /\ state[j][1].preserve_on_destroy = Some(TRUE)
          /\ state[lastOp.inst][1].preserve_on_destroy = Some(FALSE)
          /\ SameComputed(state[lastOp.inst][1], state[j][1])

IsPlain(text) == \A k \in 1..Len(text) : text[k] \in Letters

\* The step is a successful Read of the instance whose Create or Update was
\* the step before and succeeded.
ReadsBack(ops) ==
    /\ Stepped({"Read"})
    /\ ~lastOp'.err
    /\ lastOp.op \in ops
    /\ ~lastOp.err
    /\ lastOp.inst = lastOp'.inst

C7_FailedReadKeepsState ==
    [][Stepped({"Read"}) =>
        LET i == lastOp'.inst
            before == state[i][1]
        IN /\ lastOp'.calls = <<Call("GetStatus", before.id[1], NoToot)>>
           /\ ~IsLive(before.id[1]) => lastOp'.err
           /\ lastOp'.err => state' = state
           /\ state'[i] # None
    ]_vars

\* A Read failed on a post that was deleted on the server, and the state still
\* holds the post's attributes.
C7_Witness ==
    /\ lastOp.op = "Read"
    /\ lastOp.err
    /\ state[lastOp.inst] # None
    /\ state[lastOp.inst][1].content # None
    /\ remote[state[lastOp.inst][1].id[1]].status = "deleted"

Chars == Letters \cup {"<", ">", "/", "&lt;", "&gt;"}

\* sanitize(sanitize(x)) = sanitize(x) for every text of up to MaxLen characters.
SanitizeIdempotent ==
    \A text \in SeqsUpTo(Chars, MaxLen) : Sanitize(Sanitize(text)) = Sanitize(text)

\* After a successful Create, Read or Update the stored content is the
\* sanitized form of the content the server holds for the post.
StoresSanitized ==
    Stepped({"Create", "Read", "Update"}) /\ ~lastOp'.err =>
        LET after == state'[lastOp'.inst][1]
        IN after.content = Some(Sanitize(remote'[after.id[1]].content))

\* C8 as stated: reading back a post created or updated with content C yields
\* sanitize(C), and leaves the stored content as Create or Update left it.
C8_AsStated ==
    [][/\ StoresSanitized
       /\ ReadsBack({"Create", "Update"}) =>
             /\ state'[lastOp'.inst][1].content = state[lastOp'.inst][1].content
             /\ state'[lastOp'.inst][1].content = Some(Sanitize(lastOp.input.content))
    ]_vars

\* C8, amended: Create, Read and Update all store the sanitized form of the
\* content the server returns; reading back a post created or updated with
\* content C leaves the stored content unchanged, equal to the sanitized form
\* of the server's rendering of C, which is C itself when C has no markup; and
\* the sanitizer is idempotent.
C8_SanitizedRoundTrip ==
    [][/\ SanitizeIdempotent
       /\ StoresSanitized
       /\ ReadsBack({"Create", "Update"}) =>
             /\ state'[lastOp'.inst][1].content = state[lastOp'.inst][1].content
             /\ state'[lastOp'.inst][1].content = Some(Sanitize(Render(lastOp.input.content)))
             /\ IsPlain(lastOp.input.content) =>
                   state'[lastOp'.inst][1].content = Some(lastOp.input.content)
    ]_vars

\* A post made from content with a tag was stored and read: the state holds
\* the sanitized rendering, which is neither the content submitted nor what the
\* server returned.
C8_Witness ==
    /\ lastOp.op = "Read"
    /\ ~lastOp.err
    /\ LET data == state[lastOp.inst][1]
       IN /\ data.content = Some(Sanitize(remote[data.id[1]].content))
          /\ data.content = Some(Sanitize(Render(<<"<", "p", ">", "y">>)))
          /\ data.content # Some(remote[data.id[1]].content)
          /\ data.content # Some(<<"<", "p", ">", "y">>)


\* C12: a Create whose configuration leaves visibility and sensitive unset
\* submits visibility "public" and sensitive false; when it succeeds and the
\* content is markup-free, the state holds that content, "public" and false.
C12_CreateAppliesDefaults ==
    [][(/\ Stepped({"Create"})
        /\ lastOp'.input.visibility = None
        /\ lastOp'.input.sensitive = None) =>
        LET i == lastOp'.inst
            cfg == lastOp'.input
        IN /\ Len(lastOp'.calls) = 1
           /\ lastOp'.calls[1].toot.Visibility = "public"
           /\ lastOp'.calls[1].toot.Sensitive = FALSE
           /\ (~lastOp'.err /\ IsPlain(cfg.content)) =>
                  /\ state'[i] # None
                  /\ state'[i][1].content = Some(cfg.content)
                  /\ state'[i][1].visibility = Some("public")
                  /\ state'[i][1].sensitive = Some(FALSE)
    ]_vars

\* A Create with only content given succeeded and the state shows the defaults.
C12_Witness ==
    /\ lastOp.op = "Create"
    /\ ~lastOp.err
    /\ lastOp.input.visibility = None
    /\ lastOp.input.sensitive = None
    /\ IsPlain(lastOp.input.content)
    /\ state[lastOp.inst] # None
    /\ state[lastOp.inst][1].content = Some(lastOp.input.content)
    /\ state[lastOp.inst][1].visibility = Some("public")

--------------------------------------------------------------------------
(* Properties of the adapters, checked under SpecAdapters                  *)

ConfigureOps == {"PostConfigure", "AccountConfigure"}
AdapterOps == {"Create", "Read", "Update", "Delete", "AccountRead"}

\* The adapter a handler belongs to.
AdapterOf(op) == IF op \in {"AccountRead", "AccountConfigure"} THEN "account" ELSE "post"

\* C13: the account data source's Read makes one lookup, by the configured
\* username. When the lookup fails it reports an error and the state stays as
\* it was; when it succeeds the state holds the username and the id, display
\* name, note, locked and bot of the account returned, whatever it held
\* before, so bot is false exactly when the account's bot flag is false.
C13_AccountReadOverwrites ==
    [][Stepped({"AccountRead"}) =>
        LET d == lastOp'.inst
            u == lastOp'.input.username
        IN /\ lastOp'.calls = <<LookupCall(u)>>
           /\ IF lastOp'.err
              THEN accountState' = accountState
              ELSE /\ accounts[u] # None
                   /\ LET account == accounts[u][1]
                      IN /\ accountState'[d] = Some(
                               [username     |-> Some(u),
                                id           |-> Some(account.ID),
                                display_name |-> Some(account.DisplayName),
                                note         |-> Some(account.Note),
                                locked       |-> Some(account.Locked),
                                bot          |-> Some(account.Bot)])
                         /\ (accountState'[d][1].bot = Some(FALSE)) <=> (account.Bot = FALSE)
                   /\ \A other \in DataSources \ {d} :
                          accountState'[other] = accountState[other]
    ]_vars

\* A Read succeeded for an account that is locked and is not a bot: the state
\* shows bot false next to locked true.
C13_Witness ==
    /\ lastOp.op = "AccountRead"
    /\ ~lastOp.err
    /\ accountState[lastOp.inst] # None
    /\ accountState[lastOp.inst][1].username = Some(lastOp.input.username)
    /\ accountState[lastOp.inst][1].bot = Some(FALSE)
    /\ accountState[lastOp.inst][1].locked = Some(TRUE)

\* No handler of an adapter runs unless the adapter holds the client.
ClientSetWhenRunning ==
    Stepped(AdapterOps) => adapter[AdapterOf(lastOp'.op)].client = TheClient

\* C14 as stated: an adapter's Configure reports an error whenever the
\* provider data is absent or is not a client, stores the client only when it
\* is one, and no handler runs with an unset client.
C14_AsStated ==
    [][/\ Stepped(ConfigureOps) =>
            LET a == AdapterOf(lastOp'.op)
                pd == adapter'[a].data
            IN /\ lastOp'.err <=> pd # TheClient
               /\ adapter'[a].client =
                      IF pd = TheClient THEN TheClient ELSE adapter[a].client
       /\ ClientSetWhenRunning
    ]_vars

\* C14, amended: an adapter's Configure reports an error exactly when the
\* provider data is present and is not a client; when it is absent Configure
\* returns without an error and without storing anything; the client is stored
\* only when the provider data is one; and no handler runs with an unset client.
C14_ConfigureChecksTheClient ==
    [][/\ Stepped(ConfigureOps) =>
            LET a == AdapterOf(lastOp'.op)
                pd == adapter'[a].data
            IN /\ lastOp'.err <=> pd \notin {Nil, TheClient}
               /\ adapter'[a].client =
                      IF pd = TheClient THEN TheClient ELSE adapter[a].client
       /\ ClientSetWhenRunning
    ]_vars

\* An adapter's Configure was given no provider data: it reported nothing and
\* the adapter holds no client.
C14_Witness ==
    /\ lastOp.op \in ConfigureOps
    /\ adapter[AdapterOf(lastOp.op)].data = Nil
    /\ ~lastOp.err
    /\ adapter[AdapterOf(lastOp.op)].client = Nil

\* C15: Create, Read, Update and Delete of a post and Read of an account make
\* at most one remote call. An operation that reports an error has made its
\* one call and leaves every stored state as it was; the only operation that
\* ends without a call and without an error is Delete of a post whose
\* preserve_on_destroy is true.
C15_OneCallNoRetry ==
    [][Stepped(AdapterOps) =>
        /\ Len(lastOp'.calls) <= 1
        /\ lastOp'.err =>
              /\ Len(lastOp'.calls) = 1
              /\ state' = state
              /\ accountState' = accountState
        /\ (lastOp'.calls = <<>> /\ ~lastOp'.err) =>
              /\ lastOp'.op = "Delete"
              /\ state[lastOp'.inst][1].preserve_on_destroy = Some(TRUE)
    ]_vars

\* A lookup failed after an earlier one had succeeded: the error is reported
\* and the state of the data source is still there.
C15_Witness ==
    /\ lastOp.op = "AccountRead"
    /\ lastOp.err
    /\ Len(lastOp.calls) = 1
    /\ accountState[lastOp.inst] # None

--------------------------------------------------------------------------
(* Properties of handlers running side by side, checked under              *)
(* SpecConcurrent                                                          *)

\* The locals the handler of a ticket has when it runs with nothing else in
\* flight: its input and the state stored for its owner when it made its call.
Alone(t) ==
    [op     |-> t.op,
     data   |-> CASE t.op = "Create"             -> PlanOf(t.input, None)
                  [] t.op = "Update"             -> PlanOf(t.input, t.prior)
                  [] t.op \in {"Read", "Delete"} -> t.prior[1]
                  [] t.op = "AccountRead"        -> AccountConfig(t.input.username),
     answer |-> t.answer]

\* The handler of owner o returns in this step.
Finishes(o) == ticket[o] # None /\ ticket'[o] = None

\* C16: the provider hands one client to both adapters and no step of a
\* handler changes it or the configuration it was built from. Handlers of
\* different owners may overlap in any way: each makes the call and leaves the
\* state that it would have made and left had it run alone at the moment of
\* its call, and it touches no other owner's state.
C16_InterleavingEqualsSequential ==
    [][/\ ResourceData = TheClient /\ DataSourceData = TheClient
       /\ \A a \in Adapters : adapter[a].client = ResourceData
       /\ adapter' = adapter
       /\ <<clientConfig, ResourceData, DataSourceData>>'
              = <<clientConfig, ResourceData, DataSourceData>>
       /\ \A o \in Owners :
             Finishes(o) =>
                LET t == ticket[o][1]
                IN /\ \E out \in CallOutcomes(Alone(t)) : out.sent = t.sent
                   /\ StoredFor(o)' = StoredBy(Alone(t), t.prior)
                   /\ \A other \in Owners \ {o} : StoredFor(other)' = StoredFor(other)
    ]_vars

\* The Create of one post has returned and stored its post while the handler
\* of the other post and the Read of the account, both started before, have
\* made their calls and not yet returned.
C16_Witness ==
    /\ lastOp.op = "Finish"
    /\ ~lastOp.err
    /\ lastOp.inst = "a"
    /\ state["a"] # None
    /\ ticket["b"] # None
    /\ ticket["b"][1].answer # None
    /\ ticket["test"] # None
    /\ ticket["test"][1].answer # None

==========================================================================
